---- MODULE Spec2Model ----
(***************************************************************************)
(* ex43::ThreadPool of src/ch07/main.cpp: a fixed set of worker threads    *)
(* pulling std::packaged_task<void()> objects from a std::queue guarded by *)
(* one std::mutex and one std::condition_variable, the client thread that  *)
(* calls async(), future::get() and the destructor, and the task bodies    *)
(* of ex43::test (sum += i; return i).                                     *)
(* The smaller examples of the same sources follow it, each with its own   *)
(* variables and its own specification; while one program runs, the        *)
(* variables of the others stay at their "off" value.                      *)
(***************************************************************************)
EXTENDS Integers, Sequences, FiniteSets, TLC

\* ---------------------------------------------------------------- bounds
MaxWorkers == 2
MaxTasks == 2
MaxCas == 2
MaxFails == 2
MaxSpurious == 2
MaxAdds == 2
MaxX == 2
MaxLocks == 2
MaxMutexes == 1
MaxThreads == 3
MaxReqs == 2

\* The two ThreadPool objects of the program: tp of test and tp of test2.
Pools == {1, 2}
TaskIds == 1..MaxTasks

\* ---------------------------------------------------------------- threads
\* A thread is a pair: <<0, 0>> is the client thread (the caller of
\* test / test2), <<p, i>> is m_workers[i-1] of pool p.
Main == <<0, 0>>
NoThread == <<-1, -1>>
WorkerIds == Pools \X (1..MaxWorkers)
ThreadIds == {Main} \cup WorkerIds

VARIABLES
    size,        \* size[p]: constructor argument of pool p, 0 when p was never built
    life,        \* life[p]: "none", "alive" or "destroyed" (after ~ThreadPool returned)
    mtx,         \* mtx[p]: the thread that owns m_state.mtx, or NoThread
    work_queue,  \* work_queue[p]: m_state.work_queue, a sequence of task ids
    aborting,    \* aborting[p]: m_state.aborting
    pc,          \* pc[th]: position of the thread in its code
    cur,         \* cur[w]: the local `task` of worker_loop, 0 when it holds none
    arg,         \* arg[th]: the `task` parameter of the enqueue_task call th is in
    mpool,       \* the pool the client thread is operating on
    joined,      \* number of m_workers the destructor loop has joined
    ntasks,      \* number of packaged_task cells created so far
    pool_of,     \* pool_of[t]: the pool task t is submitted to
    kind,        \* kind[t]: what the callable of t does
    amt,         \* amt[t]: the captured int of the callable of t
    child,       \* child[t]: the task a "spawn" callable submits, else 0
    outcome,     \* outcome[t]: the shared state of t's future
    result,      \* result[t]: the value stored in the shared state
    last_get,    \* <<t, o>>: the latest future::get() of the client, on t, reported o
    sum,         \* the std::atomic<int> sum of ex43::test
    pushed,      \* pushed[p]: history of work_queue.push, in order
    popped,      \* popped[p]: history of work_queue.pop, in order
    late,        \* late[p]: the tasks pushed while m_state.aborting was already true
    attempts     \* attempts[t]: how many times an outcome was stored into t

poolVars == <<size, life>>
taskDesc == <<pool_of, kind, amt, child>>
hist == <<pushed, popped, late>>
poolAll == <<size, life, mtx, work_queue, aborting, pc, cur, arg, mpool, joined,
             ntasks, pool_of, kind, amt, child, outcome, result, last_get, sum,
             pushed, popped, late, attempts>>

\* ---------------------------------------------------------------- ex08, ex09
VARIABLES
    cas_a,       \* the std::atomic<int> a
    cas_pc,      \* cas_pc[t]: position of thread t in its compare-exchange loop
    form,        \* form[t]: "ex08" (reload every iteration) or "ex09" (load once)
    expected,    \* expected[t]: the local int expected
    desired,     \* desired[t]: the local int desired (ex08)
    fails        \* fails[t]: failed exchanges of t so far, counted up to MaxFails

casVars == <<cas_a, cas_pc, form, expected, desired, fails>>

CasThreads == 1..MaxCas

CasOff ==
    /\ cas_a = 0
    /\ cas_pc = [t \in CasThreads |-> "off"]
    /\ form = [t \in CasThreads |-> "none"]
    /\ expected = [t \in CasThreads |-> 0]
    /\ desired = [t \in CasThreads |-> 0]
    /\ fails = [t \in CasThreads |-> 0]

\* ---------------------------------------------------------------- ex28, ex29
VARIABLES
    hs_form,     \* "ex28" (std::mutex, unique_lock) or "ex29" (shared_mutex, shared_lock)
    prepped,     \* the global bool prepped
    ready,       \* the local bool ready of test
    hs_held,     \* who holds ready_mutex / ready_rwlock, and how: <<thread, mode>>
    hs_pc,       \* hs_pc["A"]: the main thread, hs_pc["B"]: thread_b
    hs_waited,   \* the main thread has blocked in cv.wait at least once
    hs_spur      \* number of spurious wakeups of the main thread so far

hsVars == <<hs_form, prepped, ready, hs_held, hs_pc, hs_waited, hs_spur>>

HsOff ==
    /\ hs_form = "none"
    /\ prepped = FALSE
    /\ ready = FALSE
    /\ hs_held = {}
    /\ hs_pc = [t \in {"A", "B"} |-> "off"]
    /\ hs_waited = FALSE
    /\ hs_spur = 0

\* ---------------------------------------------------------------- ex20, ex21
VARIABLES
    avg_form,    \* "ex20" or "ex21": which StreamingAverage the consumer calls
    m_sum,       \* m_sc.m_data.m_sum
    m_count,     \* m_sc.m_data.m_count
    avg_mtx,     \* the thread that owns m_sc.m_mtx: "P", "C" or "none"
    avg_pc,      \* avg_pc["P"]: producer, avg_pc["C"]: consumer
    avg_x,       \* the argument x of the add_value call in progress
    nadds,       \* number of add_value calls made so far
    order,       \* which operand of get_sum() / get_count() is evaluated first
    got_sum,     \* the value get_sum() returned
    got_count,   \* the value get_count() returned
    snap1,       \* <<m_sum, m_count>> when the first operand was read
    snap2,       \* <<m_sum, m_count>> when the second operand was read
    gap_adds     \* add_value calls that completed between the two reads

avgVars == <<avg_form, m_sum, m_count, avg_mtx, avg_pc, avg_x, nadds, order,
             got_sum, got_count, snap1, snap2, gap_adds>>

AvgOff ==
    /\ avg_form = "none"
    /\ m_sum = 0
    /\ m_count = 0
    /\ avg_mtx = "none"
    /\ avg_pc = [t \in {"P", "C"} |-> "off"]
    /\ avg_x = 0
    /\ nadds = 0
    /\ order = "none"
    /\ got_sum = 0
    /\ got_count = 0
    /\ snap1 = <<0, 0>>
    /\ snap2 = <<0, 0>>
    /\ gap_adds = 0

\* ---------------------------------------------------------------- ex13
VARIABLES
    ul_life,     \* ul_life[o]: "none", "live" or "dead" for unique_lock object o
    m_mtx,       \* m_mtx[o]: the mutex o points to, 0 for nullptr
    m_locked,    \* m_locked[o]: the flag owns_lock() returns
    mx_locked,   \* mx_locked[m]: the std::mutex m is locked
    holder,      \* holder[m]: the object that locked m or received it by a move, 0 if none
    ul_end,      \* "run", or how the thread stopped: "crashed" or "blocked"
    ul_ub,       \* an operation with undefined behaviour has been executed
    twice        \* twice[m]: m.unlock() was called while m was not locked

ulVars == <<ul_life, m_mtx, m_locked, mx_locked, holder, ul_end, ul_ub, twice>>

Locks == 1..MaxLocks
Mutexes == 1..MaxMutexes

UlOff ==
    /\ ul_life = [o \in Locks |-> "none"]
    /\ m_mtx = [o \in Locks |-> 0]
    /\ m_locked = [o \in Locks |-> FALSE]
    /\ mx_locked = [m \in Mutexes |-> FALSE]
    /\ holder = [m \in Mutexes |-> 0]
    /\ ul_end = "off"
    /\ ul_ub = FALSE
    /\ twice = [m \in Mutexes |-> FALSE]

\* ---------------------------------------------------------------- ex41
VARIABLES
    g_pc,        \* position of the main thread in ex41::test
    g_i,         \* the loop variable i of the creation loop
    g_k,         \* position of the current join loop in its vector (from 1)
    ready_owner, \* the thread that has locked the mutex ready, GNone if unlocked
    lk_owns,     \* the ownership flag of the unique_lock lk
    threads,     \* the vector threads: the creation indices of its elements
    others,      \* the vector others
    joinable,    \* joinable[i]: the std::thread created at index i still has its id
    t_pc,        \* t_pc[i]: position of the thread created at index i
    scan,        \* scan[i]: position of thread i's find_if in threads (from 1)
    found,       \* found[i]: iter != threads.end()
    unlocks,     \* number of ready.unlock() calls made by the main thread
    bad_unlock   \* ready.unlock() was called by a thread that did not hold ready

gateVars == <<g_pc, g_i, g_k, ready_owner, lk_owns, threads, others, joinable,
              t_pc, scan, found, unlocks, bad_unlock>>

GThreads == 0..(MaxThreads - 1)
GMain == -1
GNone == -2

GateOff ==
    /\ g_pc = "off"
    /\ g_i = 0
    /\ g_k = 0
    /\ ready_owner = GNone
    /\ lk_owns = FALSE
    /\ threads = <<>>
    /\ others = <<>>
    /\ joinable = [i \in GThreads |-> FALSE]
    /\ t_pc = [i \in GThreads |-> "off"]
    /\ scan = [i \in GThreads |-> 0]
    /\ found = [i \in GThreads |-> FALSE]
    /\ unlocks = 0
    /\ bad_unlock = FALSE

\* ---------------------------------------------------------------- ch08 ex05
VARIABLES
    index,       \* example_resource::index
    blocks,      \* the blocks returned so far, in order: [off, bytes, align]
    mr_req,      \* <<bytes, align>> of the latest do_allocate call
    mr_last,     \* how the latest call ended: "ok", "bad_alloc" or "freed"
    nreq,        \* number of do_allocate calls so far
    nfree        \* number of do_deallocate calls so far

memVars == <<index, blocks, mr_req, mr_last, nreq, nfree>>

MemOff ==
    /\ index = 0
    /\ blocks = <<>>
    /\ mr_req = <<0, 0>>
    /\ mr_last = "off"
    /\ nreq = 0
    /\ nfree = 0

\* ---------------------------------------------------------------- all examples
exVars == <<casVars, hsVars, avgVars, ulVars, gateVars, memVars>>

ExamplesOff == CasOff /\ HsOff /\ AvgOff /\ UlOff /\ GateOff /\ MemOff

vars == <<poolAll, exVars>>

\* ---------------------------------------------------------------- helpers
\* lines 1451-1454: the constructor loop runs for i = 0 .. size-1 and
\* emplaces one thread per iteration (numbered from 1 here).
SpawnedOneMore(n) == 1..(n + 1)

Spawned(n) == 1..n

\* m_workers of pool p.
Workers(p) == {w \in WorkerIds : w[1] = p /\ w[2] \in Spawned(size[p])}

\* std::atomic<int>::operator+= : one indivisible read-modify-write. The
\* largest total of ex43::test, 1799970000, is below 2^31, and the totals
\* here are at most MaxTasks * MaxAmt, so the int never wraps.
AtomicAddStores(s, a) == a

AtomicAdd(s, a) == s + a

\* std::queue::push, front and pop.
QPushFront(q, t) == <<t>> \o q

QPush(q, t) == Append(q, t)

QFront(q) == Head(q)

QPopNothing(q) == q

QPop(q) == Tail(q)

\* Storing an outcome into the shared state of a packaged_task: the first
\* store makes the future ready, a later one is rejected
\* (promise_already_satisfied) and leaves the stored outcome alone.
Deliver(o, t, what) == IF o[t] = "pending" THEN [o EXCEPT ![t] = what] ELSE o

DeliverValue(r, o, t, v) == IF o[t] = "pending" THEN [r EXCEPT ![t] = v] ELSE r

\* ~packaged_task of a cell that was never invoked: broken_promise.
RECURSIVE AbandonAll(_, _)
AbandonAll(o, q) ==
    IF q = <<>> THEN o
    ELSE AbandonAll(Deliver(o, Head(q), "broken"), Tail(q))

RECURSIVE CountAbandon(_, _)
CountAbandon(a, q) ==
    IF q = <<>> THEN a
    ELSE CountAbandon([a EXCEPT ![Head(q)] = @ + 1], Tail(q))

\* ---------------------------------------------------------------- Init
\* The state right after `ThreadPool tp(size)`: size workers spawned, each
\* at the top of worker_loop, empty queue, aborting = false.
InitPool(n) ==
    /\ size = [p \in Pools |-> IF p <= n THEN size[p] ELSE 0]
    /\ life = [p \in Pools |-> IF p <= n THEN "alive" ELSE "none"]
    /\ mtx = [p \in Pools |-> NoThread]
    /\ work_queue = [p \in Pools |-> <<>>]
    /\ aborting = [p \in Pools |-> FALSE]
    /\ pc = [th \in ThreadIds |->
               IF th = Main THEN "client"
               ELSE IF th[1] <= n /\ th[2] \in Spawned(size[th[1]]) THEN "lock"
               ELSE "absent"]
    /\ cur = [w \in WorkerIds |-> 0]
    /\ arg = [th \in ThreadIds |-> 0]
    /\ mpool = 0
    /\ joined = 0
    /\ ntasks = 0
    /\ pool_of = [t \in TaskIds |-> 0]
    /\ kind = [t \in TaskIds |-> "none"]
    /\ amt = [t \in TaskIds |-> 0]
    /\ child = [t \in TaskIds |-> 0]
    /\ outcome = [t \in TaskIds |-> "none"]
    /\ result = [t \in TaskIds |-> 0]
    /\ last_get = <<0, "none">>
    /\ sum = 0
    /\ pushed = [p \in Pools |-> <<>>]
    /\ popped = [p \in Pools |-> <<>>]
    /\ late = [p \in Pools |-> {}]
    /\ attempts = [t \in TaskIds |-> 0]

Init ==
    /\ size \in [Pools -> 0..MaxWorkers]
    /\ size[1] >= 1
    /\ InitPool(1)
    /\ ExamplesOff

\* std::mutex::lock returns only when no thread owns the mutex.
UnlockedAlways(m) == TRUE

Unlocked(m) == m = NoThread

\* ---------------------------------------------------------------- worker_loop
\* line 1488: std::unique_lock lk(m_state.mtx)
WorkerLock(w) ==
    /\ pc[w] = "lock"
    /\ Unlocked(mtx[w[1]])
    /\ mtx' = [mtx EXCEPT ![w[1]] = w]
    /\ pc' = [pc EXCEPT ![w] = "pred"]
    /\ UNCHANGED <<exVars, poolVars, work_queue, aborting, cur, arg, mpool, joined, ntasks,
                   taskDesc, outcome, result, last_get, sum, hist, attempts>>

\* lines 1490-1492: the predicate holds, m_cv.wait(lk) releases the mutex
\* and blocks the worker in one indivisible step.
WaitPredicateWrongFlag(q, a) == q = <<>> /\ a

WaitPredicate(q, a) == q = <<>> /\ ~a

WorkerWait(w) ==
    /\ pc[w] = "pred"
    /\ WaitPredicate(work_queue[w[1]], aborting[w[1]])
    /\ mtx' = [mtx EXCEPT ![w[1]] = NoThread]
    /\ pc' = [pc EXCEPT ![w] = "waiting"]
    /\ UNCHANGED <<exVars, poolVars, work_queue, aborting, cur, arg, mpool, joined, ntasks,
                   taskDesc, outcome, result, last_get, sum, hist, attempts>>

\* m_cv.wait returns only after re-acquiring the mutex (after a notify or a
\* spurious wakeup the worker is at "relock").
WorkerSpurious(w) ==
    /\ pc[w] = "waiting"
    /\ pc' = [pc EXCEPT ![w] = "relock"]
    /\ UNCHANGED <<exVars, poolVars, mtx, work_queue, aborting, cur, arg, mpool, joined,
                   ntasks, taskDesc, outcome, result, last_get, sum, hist, attempts>>

WorkerRelock(w) ==
    /\ pc[w] = "relock"
    /\ Unlocked(mtx[w[1]])
    /\ mtx' = [mtx EXCEPT ![w[1]] = w]
    /\ pc' = [pc EXCEPT ![w] = "pred"]
    /\ UNCHANGED <<exVars, poolVars, work_queue, aborting, cur, arg, mpool, joined, ntasks,
                   taskDesc, outcome, result, last_get, sum, hist, attempts>>

\* line 1495: if (m_state.aborting), whatever the queue holds.
ShouldBreakWhenDrained(q, a) == a /\ q = <<>>

ShouldBreakNever(q, a) == FALSE

ShouldBreak(q, a) == a

\* line 1490 predicate false, lines 1495-1498 aborting: the loop is left
\* through break and lk's destructor unlocks.
WorkerBreak(w) ==
    /\ pc[w] = "pred"
    /\ ~WaitPredicate(work_queue[w[1]], aborting[w[1]])
    /\ ShouldBreak(work_queue[w[1]], aborting[w[1]])
    /\ mtx' = [mtx EXCEPT ![w[1]] = NoThread]
    /\ pc' = [pc EXCEPT ![w] = "exited"]
    /\ UNCHANGED <<exVars, poolVars, work_queue, aborting, cur, arg, mpool, joined, ntasks,
                   taskDesc, outcome, result, last_get, sum, hist, attempts>>

\* line 1490 predicate false, line 1495 not aborting: fall through to the pop.
WorkerNoBreak(w) ==
    /\ pc[w] = "pred"
    /\ ~WaitPredicate(work_queue[w[1]], aborting[w[1]])
    /\ ~ShouldBreak(work_queue[w[1]], aborting[w[1]])
    /\ pc' = [pc EXCEPT ![w] = "pop"]
    /\ UNCHANGED <<exVars, poolVars, mtx, work_queue, aborting, cur, arg, mpool, joined,
                   ntasks, taskDesc, outcome, result, last_get, sum, hist, attempts>>

\* lines 1501-1507: assert the queue is not empty, move the front task into
\* the local `task`, pop it, still under the lock; then lk.unlock().
KeepsLockWhileRunning(w) == w

UnlockBeforeRun(w) == NoThread

WorkerPop(w) ==
    /\ pc[w] = "pop"
    /\ IF work_queue[w[1]] = <<>>
       THEN /\ pc' = [pc EXCEPT ![w] = "assert_failed"]
            /\ UNCHANGED <<cur, work_queue, popped, mtx>>
       ELSE /\ cur' = [cur EXCEPT ![w] = QFront(work_queue[w[1]])]
            /\ work_queue' = [work_queue EXCEPT ![w[1]] = QPop(@)]
            /\ popped' = [popped EXCEPT ![w[1]] = Append(@, QFront(work_queue[w[1]]))]
            /\ mtx' = [mtx EXCEPT ![w[1]] = UnlockBeforeRun(w)]
            /\ pc' = [pc EXCEPT ![w] = "run"]
    /\ UNCHANGED <<exVars, poolVars, aborting, arg, mpool, joined, ntasks,
                   taskDesc, outcome, result, last_get, sum, pushed, late, attempts>>

\* ---------------------------------------------------------------- task bodies
\* line 1511 task() runs the lambda of line 1525, which runs pt(), which runs
\* the callable and stores what it returns or throws into the shared state.
\* line 1546: sum += i
RunAdd(w) ==
    /\ pc[w] = "run"
    /\ kind[cur[w]] = "add"
    /\ sum' = AtomicAdd(sum, amt[cur[w]])
    /\ pc' = [pc EXCEPT ![w] = "ret"]
    /\ UNCHANGED <<exVars, poolVars, mtx, work_queue, aborting, cur, arg, mpool, joined,
                   ntasks, taskDesc, outcome, result, last_get, hist, attempts>>

\* A callable that throws: packaged_task::operator() catches the exception
\* and stores it; `task` is destroyed at the end of the iteration (line 1512)
\* and the worker goes back to line 1488.
AfterThrowDies(w) == "exited"

AfterThrow(w) == "lock"

RunThrow(w) ==
    /\ pc[w] = "run"
    /\ kind[cur[w]] = "throw"
    /\ outcome' = Deliver(outcome, cur[w], "failure")
    /\ attempts' = [attempts EXCEPT ![cur[w]] = @ + 1]
    /\ cur' = [cur EXCEPT ![w] = 0]
    /\ pc' = [pc EXCEPT ![w] = AfterThrow(w)]
    /\ UNCHANGED <<exVars, poolVars, mtx, work_queue, aborting, arg, mpool, joined,
                   ntasks, taskDesc, result, last_get, sum, hist>>

\* A callable that itself calls async on its pool (lines 1522-1525 build the
\* child's packaged_task and future), then returns its int.
RunSpawn(w) ==
    /\ pc[w] = "run"
    /\ kind[cur[w]] = "spawn"
    /\ outcome' = [outcome EXCEPT ![child[cur[w]]] = "pending"]
    /\ pool_of' = [pool_of EXCEPT ![child[cur[w]]] = w[1]]
    /\ arg' = [arg EXCEPT ![w] = child[cur[w]]]
    /\ pc' = [pc EXCEPT ![w] = "enq_lock"]
    /\ UNCHANGED <<exVars, poolVars, mtx, work_queue, aborting, cur, mpool, joined,
                   ntasks, kind, amt, child, result, last_get, sum, hist, attempts>>

\* line 1547: return i. The value is stored into the shared state of the
\* task the worker holds; `task` is destroyed at line 1512.
ReturnTargetFirst(w) == popped[w[1]][1]

ReturnTarget(w) == cur[w]

RunReturn(w) ==
    /\ pc[w] = "ret"
    /\ outcome' = Deliver(outcome, ReturnTarget(w), "value")
    /\ result' = DeliverValue(result, outcome, ReturnTarget(w), amt[cur[w]])
    /\ attempts' = [attempts EXCEPT ![ReturnTarget(w)] = @ + 1]
    /\ cur' = [cur EXCEPT ![w] = 0]
    /\ pc' = [pc EXCEPT ![w] = "lock"]
    /\ UNCHANGED <<exVars, poolVars, mtx, work_queue, aborting, arg, mpool, joined,
                   ntasks, taskDesc, last_get, sum, hist>>

\* ---------------------------------------------------------------- enqueue_task
\* The calling thread is the client or a worker running a "spawn" callable.
TargetPoolShared(th) == 1

TargetPool(th) == IF th = Main THEN mpool ELSE th[1]

\* line 1476: std::lock_guard lk(m_state.mtx)
EnqLock(th) ==
    /\ pc[th] = "enq_lock"
    /\ Unlocked(mtx[TargetPool(th)])
    /\ mtx' = [mtx EXCEPT ![TargetPool(th)] = th]
    /\ pc' = [pc EXCEPT ![th] = "enq_push"]
    /\ UNCHANGED <<exVars, poolVars, work_queue, aborting, cur, arg, mpool, joined, ntasks,
                   taskDesc, outcome, result, last_get, sum, hist, attempts>>

\* lines 1477-1478: push, then lk goes out of scope and unlocks. The flag
\* m_state.aborting is not read.
EnqAccepts(a) == TRUE

\* std::queue has no capacity: push never waits for room.
HasRoomForOne(q) == Len(q) < 1

HasRoom(q) == TRUE

EnqPush(th) ==
    /\ pc[th] = "enq_push"
    /\ HasRoom(work_queue[TargetPool(th)])
    /\ IF EnqAccepts(aborting[TargetPool(th)])
       THEN /\ work_queue' = [work_queue EXCEPT ![TargetPool(th)] = QPush(@, arg[th])]
            /\ pushed' = [pushed EXCEPT ![TargetPool(th)] = Append(@, arg[th])]
            /\ late' = [late EXCEPT ![TargetPool(th)] =
                           IF aborting[TargetPool(th)] THEN @ \cup {arg[th]} ELSE @]
       ELSE UNCHANGED <<work_queue, pushed, late>>
    /\ mtx' = [mtx EXCEPT ![TargetPool(th)] = NoThread]
    /\ pc' = [pc EXCEPT ![th] = "enq_notify"]
    /\ UNCHANGED <<exVars, poolVars, aborting, cur, arg, mpool, joined, ntasks,
                   taskDesc, outcome, result, last_get, sum, popped, attempts>>

\* line 1479: m_cv.notify_one() wakes one of the workers blocked in wait, if
\* there is one; enqueue_task and async return (line 1530).
Waiting(p) == {w \in Workers(p) : pc[w] = "waiting"}

NotifyNobody(p) == {}

NotifyOneCandidates(p) == Waiting(p)

AfterEnqueue(th) == IF th = Main THEN "client" ELSE "ret"

EnqNotify(th) ==
    /\ pc[th] = "enq_notify"
    /\ IF NotifyOneCandidates(TargetPool(th)) = {}
       THEN pc' = [pc EXCEPT ![th] = AfterEnqueue(th)]
       ELSE \E w \in NotifyOneCandidates(TargetPool(th)) :
                pc' = [pc EXCEPT ![th] = AfterEnqueue(th), ![w] = "relock"]
    /\ arg' = [arg EXCEPT ![th] = 0]
    /\ UNCHANGED <<exVars, poolVars, mtx, work_queue, aborting, cur, mpool, joined, ntasks,
                   taskDesc, outcome, result, last_get, sum, hist, attempts>>

\* ---------------------------------------------------------------- client
Kinds == {"add", "throw", "spawn"}

\* lines 1543-1545: the i-th callable built by the client captures i.
Captured(i) == i

\* async, lines 1522-1527, called by the client with a callable of kind k:
\* a new packaged_task and its future, then enqueue_task. A "spawn" callable
\* also fixes the callable it will submit later.
Cells(k) == IF k = "spawn" THEN 2 ELSE 1

MainAsync(p, k) ==
    /\ pc[Main] = "client"
    /\ life[p] = "alive"
    /\ ntasks + Cells(k) <= MaxTasks
    /\ ntasks' = ntasks + Cells(k)
    /\ pool_of' = [pool_of EXCEPT ![ntasks + 1] = p]
    /\ outcome' = [outcome EXCEPT ![ntasks + 1] = "pending"]
    /\ IF k = "spawn"
       THEN /\ kind' = [kind EXCEPT ![ntasks + 1] = k, ![ntasks + 2] = "add"]
            /\ amt' = [amt EXCEPT ![ntasks + 1] = Captured(ntasks + 1),
                                  ![ntasks + 2] = Captured(ntasks + 2)]
            /\ child' = [child EXCEPT ![ntasks + 1] = ntasks + 2]
       ELSE /\ kind' = [kind EXCEPT ![ntasks + 1] = k]
            /\ amt' = [amt EXCEPT ![ntasks + 1] = Captured(ntasks + 1)]
            /\ UNCHANGED child
    /\ arg' = [arg EXCEPT ![Main] = ntasks + 1]
    /\ mpool' = p
    /\ pc' = [pc EXCEPT ![Main] = "enq_lock"]
    /\ UNCHANGED <<exVars, poolVars, mtx, work_queue, aborting, cur, joined,
                   result, last_get, sum, hist, attempts>>

\* std::future::get (lines 1553, 1600, 1606): blocks until the shared state
\* is ready, then reports the stored outcome; one-shot.
Ready(t) == outcome[t] \in {"value", "failure", "broken"}

MainGet(t) ==
    /\ pc[Main] = "client"
    /\ Ready(t)
    /\ last_get # <<t, outcome[t]>>
    /\ last_get' = <<t, outcome[t]>>
    /\ UNCHANGED <<exVars, poolVars, mtx, work_queue, aborting, pc, cur, arg, mpool, joined,
                   ntasks, taskDesc, outcome, result, sum, hist, attempts>>

\* ---------------------------------------------------------------- ~ThreadPool
\* line 1460: std::lock_guard lk(m_state.mtx)
DtorLock(p) ==
    /\ pc[Main] = "client"
    /\ life[p] = "alive"
    /\ Unlocked(mtx[p])
    /\ mtx' = [mtx EXCEPT ![p] = Main]
    /\ mpool' = p
    /\ pc' = [pc EXCEPT ![Main] = "dtor_set"]
    /\ UNCHANGED <<exVars, poolVars, work_queue, aborting, cur, arg, joined, ntasks,
                   taskDesc, outcome, result, last_get, sum, hist, attempts>>

\* lines 1461-1462: set the flag, unlock.
DtorSetAborting ==
    /\ pc[Main] = "dtor_set"
    /\ aborting' = [aborting EXCEPT ![mpool] = TRUE]
    /\ mtx' = [mtx EXCEPT ![mpool] = NoThread]
    /\ pc' = [pc EXCEPT ![Main] = "dtor_notify"]
    /\ UNCHANGED <<exVars, poolVars, work_queue, cur, arg, mpool, joined, ntasks,
                   taskDesc, outcome, result, last_get, sum, hist, attempts>>

\* line 1464: m_cv.notify_all() wakes every worker blocked in wait.
NotifyOnlyOne(p) == IF Waiting(p) = {} THEN {} ELSE {CHOOSE w \in Waiting(p) : TRUE}

NotifyAllWoken(p) == Waiting(p)

DtorNotifyAll ==
    /\ pc[Main] = "dtor_notify"
    /\ pc' = [th \in ThreadIds |->
                IF th = Main THEN "dtor_join"
                ELSE IF th \in NotifyAllWoken(mpool) THEN "relock"
                ELSE pc[th]]
    /\ joined' = 0
    /\ UNCHANGED <<exVars, poolVars, mtx, work_queue, aborting, cur, arg, mpool, ntasks,
                   taskDesc, outcome, result, last_get, sum, hist, attempts>>

\* lines 1466-1469: the loop joins every element of m_workers; t.join()
\* returns once that worker has left worker_loop.
JoinCountButLast(p) == Cardinality(Workers(p)) - 1

JoinCount(p) == Cardinality(Workers(p))

JoinableAlways(w) == TRUE

Joinable(w) == pc[w] = "exited"

DtorJoin ==
    /\ pc[Main] = "dtor_join"
    /\ joined < JoinCount(mpool)
    /\ Joinable(<<mpool, joined + 1>>)
    /\ joined' = joined + 1
    /\ UNCHANGED <<exVars, poolVars, mtx, work_queue, aborting, pc, cur, arg, mpool, ntasks,
                   taskDesc, outcome, result, last_get, sum, hist, attempts>>

\* line 1470: the members are destroyed in reverse order of declaration
\* (m_cv, m_workers, m_state). Destroying work_queue destroys every
\* packaged_task still in it, which stores broken_promise into its future.
AbandonedButFirst(q) == IF q = <<>> THEN q ELSE Tail(q)

Abandoned(q) == q

DtorMembers ==
    /\ pc[Main] = "dtor_join"
    /\ joined = JoinCount(mpool)
    /\ outcome' = AbandonAll(outcome, Abandoned(work_queue[mpool]))
    /\ attempts' = CountAbandon(attempts, Abandoned(work_queue[mpool]))
    /\ work_queue' = [work_queue EXCEPT ![mpool] = <<>>]
    /\ life' = [life EXCEPT ![mpool] = "destroyed"]
    /\ pc' = [pc EXCEPT ![Main] = "client"]
    /\ UNCHANGED <<exVars, size, mtx, aborting, cur, arg, mpool, joined, ntasks,
                   taskDesc, result, last_get, sum, hist>>

\* ---------------------------------------------------------------- Next
WorkerStep(w) ==
    \/ WorkerLock(w)
    \/ WorkerWait(w)
    \/ WorkerSpurious(w)
    \/ WorkerRelock(w)
    \/ WorkerBreak(w)
    \/ WorkerNoBreak(w)
    \/ WorkerPop(w)
    \/ RunAdd(w)
    \/ RunThrow(w)
    \/ RunSpawn(w)
    \/ RunReturn(w)

EnqStep(th) ==
    \/ EnqLock(th)
    \/ EnqPush(th)
    \/ EnqNotify(th)

Next ==
    \/ \E w \in WorkerIds : WorkerStep(w)
    \/ \E th \in ThreadIds : EnqStep(th)
    \/ \E p \in Pools, k \in Kinds : MainAsync(p, k)
    \/ \E t \in TaskIds : MainGet(t)
    \/ \E p \in Pools : DtorLock(p)
    \/ DtorSetAborting
    \/ DtorNotifyAll
    \/ DtorJoin
    \/ DtorMembers

Spec == Init /\ [][Next]_vars

TypeOK ==
    /\ \A p \in Pools : mtx[p] \in ThreadIds \cup {NoThread}
    /\ \A t \in TaskIds : outcome[t] \in {"none", "pending", "value", "failure", "broken"}
    /\ ntasks \in 0..MaxTasks

\* ---------------------------------------------------------------- fairness
\* Every thread that can take a step of its code eventually takes it (the
\* scheduler runs every runnable thread, a running callable terminates, a
\* free mutex is eventually handed to a thread blocked on it). Spurious
\* wakeups and the client's own choices (async, get, destroying the pool)
\* are not forced.
WorkerProgress(w) ==
    \/ WorkerLock(w)
    \/ WorkerWait(w)
    \/ WorkerRelock(w)
    \/ WorkerBreak(w)
    \/ WorkerNoBreak(w)
    \/ WorkerPop(w)
    \/ RunAdd(w)
    \/ RunThrow(w)
    \/ RunSpawn(w)
    \/ RunReturn(w)
    \/ EnqStep(w)

DtorProgress ==
    \/ DtorSetAborting
    \/ DtorNotifyAll
    \/ DtorJoin
    \/ DtorMembers

FairSpec ==
    /\ Spec
    /\ \A w \in WorkerIds : WF_vars(WorkerProgress(w))
    /\ WF_vars(EnqStep(Main) \/ DtorProgress)

\* ---------------------------------------------------------------- shorthands
Range(q) == {q[i] : i \in 1..Len(q)}

Submitted == {t \in TaskIds : outcome[t] # "none"}

RunPcs == {"run", "ret", "enq_lock", "enq_push", "enq_notify"}

Executing(p) == {t \in TaskIds : \E w \in WorkerIds :
                    w[1] = p /\ cur[w] = t /\ pc[w] \in RunPcs}

RECURSIVE SumAmt(_)
SumAmt(S) == IF S = {} THEN 0
             ELSE LET t == CHOOSE x \in S : TRUE IN amt[t] + SumAmt(S \ {t})

IsPrefix(a, b) == Len(a) <= Len(b) /\ \A i \in 1..Len(a) : a[i] = b[i]

Pos(q, t) == CHOOSE i \in 1..Len(q) : q[i] = t

\* ---------------------------------------------------------------- claims
\* C1: once ~ThreadPool has returned, every task that was pushed onto the
\* work queue and never dequeued has a future that is ready with
\* broken_promise; none of them is pending.
C1_QueuedTasksBroken ==
    \A p \in Pools : life[p] = "destroyed" =>
        \A t \in Range(pushed[p]) \ Range(popped[p]) : outcome[t] = "broken"

\* C1 witness: the pool was destroyed with two tasks still queued, both are
\* broken, and get() on one of them has reported broken_promise.
C1_Witness ==
    /\ life[1] = "destroyed"
    /\ Cardinality(Range(pushed[1]) \ Range(popped[1])) >= 2
    /\ \E t \in Range(pushed[1]) \ Range(popped[1]) : last_get = <<t, "broken">>

\* C2: once the destructor has set the aborting flag, it eventually returns
\* (all joins complete), whatever the workers were doing and however many
\* tasks are left in the queue.
C2_TeardownReturns ==
    (pc[Main] \in {"dtor_notify", "dtor_join"})
        ~> (\E p \in Pools : mpool = p /\ life[p] = "destroyed")

\* C2 witness: the destructor has returned although, when it broadcast, one
\* worker was running a task and tasks were left in the queue.
C2_Witness ==
    /\ life[1] = "destroyed"
    /\ size[1] = 2
    /\ Len(popped[1]) >= 1
    /\ Len(pushed[1]) > Len(popped[1])
    /\ \A w \in Workers(1) : pc[w] = "exited"

\* C3: a submitted task never has two outcomes stored (a stored outcome and
\* value never change, and at most one store is ever attempted), and once its
\* pool is destroyed it has exactly one: value, failure or broken_promise.
C3_ExactlyOneOutcome ==
    /\ [](\A t \in TaskIds : attempts[t] <= 1 /\ (Ready(t) <=> attempts[t] = 1))
    /\ [](\A t \in Submitted : life[pool_of[t]] = "destroyed" => Ready(t))
    /\ [][\A t \in TaskIds : Ready(t) =>
             outcome'[t] = outcome[t] /\ result'[t] = result[t]]_vars

\* C3 witness: a destroyed pool one of whose tasks ended with the failure
\* its callable threw and another with broken_promise.
C3_Witness ==
    /\ life[1] = "destroyed"
    /\ \E t1, t2 \in Submitted : outcome[t1] = "failure" /\ outcome[t2] = "broken"

\* C4: tasks are popped in the order they were pushed: if A was pushed before
\* B and both were popped, A was popped before B; the pop history is a prefix
\* of the push history.
C4_FifoDequeue ==
    \A p \in Pools :
        /\ IsPrefix(popped[p], pushed[p])
        /\ \A a, b \in Range(popped[p]) :
              Pos(pushed[p], a) < Pos(pushed[p], b) => Pos(popped[p], a) < Pos(popped[p], b)

\* C4 witness: two tasks popped by two different workers, the later one
\* already completed while the earlier one is still running.
C4_Witness ==
    /\ Len(popped[1]) >= 2
    /\ \E w \in Workers(1) : cur[w] = popped[1][1] /\ pc[w] = "run"
    /\ Ready(popped[1][2])

\* C5: the number of task bodies executing at once in a pool never exceeds
\* the size the pool was constructed with.
C5_AtMostSizeExecuting ==
    \A p \in Pools : Cardinality(Executing(p)) <= size[p]

\* C5 witness: a pool of size 2 with two bodies executing at once.
C5_Witness ==
    /\ size[1] = 2
    /\ Cardinality(Executing(1)) = 2

\* C6: when the callable of a task throws, the failure is stored in that
\* task's own future and no other future changes; the worker goes back to
\* the top of its loop, no other thread moves, the queue, the flag and the
\* mutex are untouched; and a future holds a failure only if its own callable
\* throws, a value only if it does not.
C6_FailureIsolated ==
    /\ [](\A t \in TaskIds : /\ outcome[t] = "failure" => kind[t] = "throw"
                             /\ outcome[t] = "value" => kind[t] \in {"add", "spawn"})
    /\ [](\A w \in WorkerIds : pc[w] # "absent" /\ ~aborting[w[1]] => pc[w] # "exited")
    /\ [][\A w \in WorkerIds :
             (pc[w] = "run" /\ kind[cur[w]] = "throw" /\ pc'[w] # "run") =>
                 /\ outcome'[cur[w]] = "failure"
                 /\ \A t \in TaskIds \ {cur[w]} : outcome'[t] = outcome[t]
                 /\ pc'[w] = "lock"
                 /\ \A th \in ThreadIds \ {w} : pc'[th] = pc[th]
                 /\ work_queue' = work_queue
                 /\ aborting' = aborting
                 /\ mtx' = mtx]_vars

\* C6 witness: a pool of size 1 ran a throwing task and then a normal one;
\* the first future holds the failure, the second its value.
C6_Witness ==
    /\ size[1] = 1
    /\ popped[1] = <<1, 2>>
    /\ outcome[1] = "failure"
    /\ outcome[2] = "value"
    /\ result[2] = Captured(2)

\* C7: a future that is ready with a value holds the value returned by the
\* callable passed to the async call that created it, and get() reports the
\* outcome of that same task.
C7_HandlePairsWithTask ==
    /\ \A t \in TaskIds : outcome[t] = "value" => result[t] = Captured(t)
    /\ \A t \in TaskIds : outcome[t] # "value" => result[t] = 0
    /\ last_get[1] # 0 => last_get[2] = outcome[last_get[1]]

\* C7 witness: two workers, the second task completed before the first,
\* which is still running, and get() on the second reported its own value.
C7_Witness ==
    /\ size[1] = 2
    /\ popped[1] = <<1, 2>>
    /\ outcome[1] = "pending"
    /\ outcome[2] = "value" /\ result[2] = Captured(2)
    /\ last_get = <<2, "value">>

\* C8: when every submitted task's future is ready with its value, sum is
\* exactly the total of the amounts of the tasks that add to it.
C8_CounterIsExactSum ==
    (Submitted # {} /\ \A t \in Submitted : outcome[t] = "value") =>
        sum = SumAmt({t \in Submitted : kind[t] = "add"})

\* C8 witness: two adding tasks on a pool of two workers, both resolved
\* with their values, get() on the second has returned.
C8_Witness ==
    /\ size[1] = 2
    /\ \A t \in 1..2 : kind[t] = "add" /\ outcome[t] = "value"
    /\ last_get = <<2, "value">>
    /\ sum = Captured(1) + Captured(2)

\* C9 (as claimed): when the tasks are the adding tasks of ex43::test,
\* submitted in order by the client, and get() of the k-th has returned its
\* value, sum is at least the total of the amounts of tasks 1..k and at most
\* the total of all submitted tasks.
C9_PrefixSumAfterGet ==
    \A k \in TaskIds :
        (last_get = <<k, "value">> /\ \A j \in 1..k : kind[j] = "add") =>
            /\ sum >= SumAmt(1..k)
            /\ sum <= SumAmt(Submitted)

\* C10 (as claimed): once the aborting flag is set, the work queue never
\* grows.
C10_QueueNeverGrowsAfterFlag ==
    [][\A p \in Pools : aborting[p] => Len(work_queue'[p]) <= Len(work_queue[p])]_vars

\* C10 (amended): once the aborting flag is set, the work queue can still
\* grow at its tail (enqueue_task does not read the flag) but nothing is
\* removed from it until the destructor destroys it, and every task pushed
\* after the flag was set is never popped and is broken once the destructor
\* has returned.
C10_LateTasksNeverRun ==
    /\ [][\A p \in Pools : aborting[p] =>
             \/ IsPrefix(work_queue[p], work_queue'[p])
             \/ life[p] = "alive" /\ life'[p] = "destroyed"]_vars
    /\ [](\A p \in Pools : \A t \in late[p] :
             /\ t \notin Range(popped[p])
             /\ life[p] = "destroyed" => outcome[t] = "broken")

\* C10 witness: a task was pushed after the flag was set and the destructor
\* has returned.
C10_Witness ==
    /\ life[1] = "destroyed"
    /\ late[1] # {}

\* C11: a worker executing a task body does not own m_state.mtx: the
\* unique_lock of worker_loop is released before task() is called and is not
\* re-acquired before the body has returned. The only moment a worker inside
\* a body owns the mutex is inside the lock_guard of an enqueue_task call
\* made by the body itself, which that call releases again.
C11_NoBodyUnderLock ==
    \A w \in WorkerIds :
        /\ pc[w] \in {"run", "ret", "enq_lock", "enq_notify"} => mtx[w[1]] # w
        /\ pc[w] = "enq_push" => mtx[w[1]] = w /\ arg[w] = child[cur[w]]

\* C11 witness: while one worker is running a task body, another thread
\* owns the mutex (it is dequeueing or enqueueing).
C11_Witness ==
    \E w \in Workers(1) :
        /\ pc[w] = "run"
        /\ mtx[1] \notin {NoThread, w}
        /\ pc[mtx[1]] \in {"pop", "enq_push"}

\* C12 (as claimed): a worker that leaves the wait with a non-empty queue
\* goes on to dequeue, and a worker terminates only when aborting is set
\* and the queue is empty.
C12_ExitsOnlyWhenDrained ==
    [][\A w \in WorkerIds :
          /\ (pc[w] = "pred" /\ work_queue[w[1]] # <<>> /\ pc'[w] # "pred")
                => pc'[w] = "pop"
          /\ (pc[w] # "exited" /\ pc'[w] = "exited")
                => aborting[w[1]] /\ work_queue[w[1]] = <<>>]_vars

\* C12 (amended): a worker that leaves the wait with a non-empty queue and
\* aborting not set dequeues the head of the queue; it terminates exactly
\* when it observes aborting set, whether or not the queue is empty; it
\* blocks exactly when the queue is empty and aborting is not set.
C12_DequeueOrExitOnFlag ==
    [][\A w \in WorkerIds :
          /\ (pc[w] = "pred" /\ pc'[w] # "pred") =>
                /\ pc'[w] = "pop" <=> (work_queue[w[1]] # <<>> /\ ~aborting[w[1]])
                /\ pc'[w] = "exited" <=> aborting[w[1]]
                /\ pc'[w] = "waiting" <=> (work_queue[w[1]] = <<>> /\ ~aborting[w[1]])
          /\ (pc[w] = "pop" /\ pc'[w] # "pop") =>
                /\ pc'[w] = "run"
                /\ cur'[w] = Head(work_queue[w[1]])
                /\ work_queue'[w[1]] = Tail(work_queue[w[1]])
          /\ (pc[w] # "exited" /\ pc'[w] = "exited") =>
                pc[w] = "pred" /\ aborting[w[1]]]_vars

\* C12 witness: a worker has terminated on the flag although the queue is
\* not empty, after a task had been dequeued.
C12_Witness ==
    /\ \E w \in Workers(1) : pc[w] = "exited"
    /\ work_queue[1] # <<>>
    /\ popped[1] # <<>>

\* Fairness for submission only: a thread that owns the mutex reaches its
\* unlock, the client's own enqueue_task call is scheduled, and the mutex,
\* when it is free again and again, is eventually given to the client. Task
\* bodies are not required to finish and blocked workers not to wake.
CriticalExit(w) ==
    \/ WorkerWait(w)
    \/ WorkerBreak(w)
    \/ WorkerNoBreak(w)
    \/ WorkerPop(w)
    \/ EnqPush(w)

SubmitFairSpec ==
    /\ Spec
    /\ \A w \in WorkerIds : WF_vars(CriticalExit(w))
    /\ WF_vars(EnqPush(Main) \/ EnqNotify(Main))
    /\ SF_vars(EnqLock(Main))

CriticalPcs == {"pred", "pop", "enq_push", "dtor_set"}

\* C13: a call of async by the client always completes, whatever the workers
\* do (all busy in bodies that never return, all blocked, none idle) and
\* whatever the queue holds; a thread that owns the mutex is always inside
\* one of the short critical sections, never in a task body or blocked in
\* wait, so the mutex is all a submitter ever waits for.
C13_SubmitNeverBlocks ==
    /\ [](\A p \in Pools : mtx[p] # NoThread => pc[mtx[p]] \in CriticalPcs)
    /\ (pc[Main] = "enq_lock") ~> (pc[Main] = "client")

\* C13 witness: the client's second async has returned while the only worker
\* of the pool is still running the first task and the second task sits in
\* the queue.
C13_Witness ==
    /\ size[1] = 1
    /\ pc[<<1, 1>>] = "run"
    /\ cur[<<1, 1>>] = 1
    /\ work_queue[1] = <<2>>
    /\ pc[Main] = "client"

\* What the callable of task t produces when it is run.
OwnOutcome(t) == IF kind[t] = "throw" THEN "failure" ELSE "value"

\* C14: a future holds broken_promise only if its task was never dequeued
\* and its pool has been destroyed; once the pool is destroyed every task
\* that was pushed and never dequeued is broken, every dequeued task (also
\* one that was running when the flag was set) holds its callable's own
\* value or exception; and a stored outcome is never replaced, by
\* ~ThreadPool or by anything else.
C14_BrokenIffNeverDequeued ==
    /\ [](\A t \in Submitted :
            LET p == pool_of[t] IN
            /\ outcome[t] = "broken" =>
                  t \notin Range(popped[p]) /\ life[p] = "destroyed"
            /\ t \in Range(popped[p]) => outcome[t] \in {"pending", OwnOutcome(t)}
            /\ outcome[t] = "value" => result[t] = amt[t]
            /\ life[p] = "destroyed" /\ t \in Range(pushed[p]) =>
                  IF t \in Range(popped[p])
                  THEN outcome[t] = OwnOutcome(t)
                  ELSE outcome[t] = "broken")
    /\ [][\A t \in TaskIds :
            Ready(t) => outcome'[t] = outcome[t] /\ result'[t] = result[t]]_vars

\* C14 witness: the pool is destroyed; a task that was running when the flag
\* was set (it submitted its child after the flag) holds its value, and the
\* child, never dequeued, is broken.
C14_Witness ==
    /\ life[1] = "destroyed"
    /\ \E t \in TaskIds :
          /\ kind[t] = "spawn"
          /\ outcome[t] = "value"
          /\ child[t] \in late[1]
          /\ outcome[child[t]] = "broken"

\* C15: once ~ThreadPool has returned, each of the size workers has left
\* worker_loop and no task of the pool is executing; from then on no worker
\* of the pool takes a step, and with no pool alive the caller's counter is
\* no longer written.
C15_NoWorkAfterTeardown ==
    /\ [](\A p \in Pools : life[p] = "destroyed" =>
            /\ Cardinality(Workers(p)) = size[p]
            /\ \A w \in Workers(p) : pc[w] = "exited"
            /\ Executing(p) = {})
    /\ [][/\ \A w \in WorkerIds : life[w[1]] = "destroyed" =>
                pc'[w] = pc[w] /\ cur'[w] = cur[w]
          /\ (\A p \in Pools : life[p] # "alive") => sum' = sum]_vars

\* C15 witness: a pool of at least two workers that has run a task is
\* destroyed.
C15_Witness ==
    /\ life[1] = "destroyed"
    /\ size[1] >= 2
    /\ popped[1] # <<>>
    /\ sum >= 1

\* A notification for pool p is still to be issued: some thread is between
\* its unlock and its notify_one, or the destructor before its notify_all.
NotifyPending(p) ==
    \/ \E th \in ThreadIds : pc[th] = "enq_notify" /\ TargetPool(th) = p
    \/ pc[Main] = "dtor_notify" /\ mpool = p

\* C16: no wakeup is lost. A worker blocked in wait while the flag is set
\* has the destructor's notify_all still to come; when the queue is
\* non-empty, either some worker of the pool is not blocked (it will test
\* the predicate again before it waits) or a notify_one is still to come.
\* With fair scheduling, terminating callables and at least one worker,
\* a non-empty queue is eventually drained unless the flag is set first
\* (only a worker's pop removes a task while the flag is clear, so every
\* task in it is dequeued); spurious wakeups are allowed and never forced.
C16_NoLostWakeup ==
    /\ [](\A p \in Pools :
            /\ \A w \in Waiting(p) : aborting[p] => NotifyPending(p)
            /\ work_queue[p] # <<>> /\ Waiting(p) # {} =>
                  Waiting(p) # Workers(p) \/ NotifyPending(p))
    /\ (work_queue[1] # <<>>) ~> (work_queue[1] = <<>> \/ aborting[1])

\* C16 witness: a worker that was blocked in wait has dequeued a task that
\* was pushed while it was blocked (the only worker of the pool, woken by
\* notify_one), and a second task is waiting in the queue.
C16_Witness ==
    /\ size[1] = 1
    /\ pc[<<1, 1>>] = "waiting"
    /\ popped[1] # <<>>
    /\ work_queue[1] # <<>>
    /\ ~aborting[1]
    /\ NotifyPending(1)

\* ---------------------------------------------------------------- two pools
\* Two ThreadPool objects alive at once, each with its own m_state,
\* m_workers and m_cv, used by the same client: `ThreadPool a(1), b(1)`.
InitTwo ==
    /\ size = [p \in Pools |-> 1]
    /\ InitPool(2)
    /\ ExamplesOff

SpecTwo == InitTwo /\ [][Next]_vars

\* Everything that belongs to pool p: its members, its workers' positions
\* and the shared states of the futures it issued.
PoolState(p) ==
    <<work_queue[p], aborting[p], mtx[p], life[p],
      [w \in {x \in WorkerIds : x[1] = p} |-> <<pc[w], cur[w]>>],
      {<<t, outcome[t], result[t]>> : t \in {x \in TaskIds : pool_of[x] = p}}>>

Touched(p) == PoolState(p)' # PoolState(p)

\* C17: two pools are independent. A step changes the state of at most one
\* pool (queue, flag, mutex, lifetime, positions of its workers, outcomes of
\* the futures it issued); when the client's step changes a pool it is the
\* pool the client is operating on, and when a worker moves it is a worker
\* of the changed pool or one of them blocked in wait that the pool's own
\* notification wakes.
C17_PoolsIndependent ==
    [][\A p \in Pools : Touched(p) =>
          /\ \A q \in Pools \ {p} : ~Touched(q)
          /\ pc'[Main] # pc[Main] => mpool' = p
          /\ \A w \in WorkerIds : pc'[w] # pc[w] => w[1] = p]_vars

\* C17 witness: both pools have run a task; the first pool has been
\* destroyed while the second is alive with its worker blocked in wait and
\* its future holding its value.
C17_Witness ==
    /\ life[1] = "destroyed"
    /\ life[2] = "alive"
    /\ pc[<<2, 1>>] = "waiting"
    /\ popped[1] # <<>>
    /\ \E t \in TaskIds : pool_of[t] = 2 /\ outcome[t] = "value"

\* The threads whose position is between a lock and the matching unlock
\* (or wait) of pool p's mutex.
Holders(p) ==
    {th \in ThreadIds :
        IF th = Main
        THEN mpool = p /\ pc[th] \in {"enq_push", "dtor_set"}
        ELSE th[1] = p /\ pc[th] \in {"pred", "pop", "enq_push"}}

\* C18: at most one thread is inside a critical section of a pool and it is
\* the owner of the pool's mutex; a worker evaluates the wait predicate and
\* the break test only as owner; every push, every pop and the write of
\* the flag is a step of the thread that owns the mutex. (The destruction
\* of the queue at the end of ~ThreadPool, after every worker is joined, is
\* not a push or a pop.)
C18_GuardedByMutex ==
    /\ [](\A p \in Pools :
            /\ Holders(p) = IF mtx[p] = NoThread THEN {} ELSE {mtx[p]}
            /\ Cardinality(Holders(p)) <= 1)
    /\ [][\A p \in Pools :
            /\ work_queue'[p] # work_queue[p] /\ life'[p] = life[p] =>
                  /\ mtx[p] # NoThread
                  /\ pc[mtx[p]] \in {"pop", "enq_push"}
                  /\ pc'[mtx[p]] # pc[mtx[p]]
                  /\ \A th \in ThreadIds \ {mtx[p]} : pc'[th] = pc[th]
            /\ aborting'[p] # aborting[p] =>
                  mtx[p] = Main /\ pc[Main] = "dtor_set" /\ pc'[Main] # "dtor_set"
            /\ \A w \in WorkerIds :
                  w[1] = p /\ pc[w] = "pred" /\ pc'[w] # "pred" => mtx[p] = w]_vars

\* C18 witness: one worker owns the mutex and is about to pop while the
\* client is blocked in enqueue_task's lock and another worker, woken, is
\* blocked re-acquiring the mutex.
C18_Witness ==
    \E w \in Workers(1) : \E v \in Workers(1) :
        /\ mtx[1] = w
        /\ pc[w] = "pop"
        /\ pc[v] = "relock"
        /\ pc[Main] = "enq_lock"

\* C19: while the flag is set no worker dequeues: the sequence of dequeued
\* tasks never grows, a worker that tests the flag leaves the loop even
\* with tasks in the queue, the tasks in the queue are never run, and a
\* task that is still executing was dequeued before the flag was set.
C19_NoDequeueAfterFlag ==
    /\ [][\A p \in Pools : aborting[p] =>
            /\ popped'[p] = popped[p]
            /\ \A w \in WorkerIds :
                  w[1] = p /\ pc[w] = "pred" /\ pc'[w] # "pred" =>
                      pc'[w] = "exited" /\ work_queue'[p] = work_queue[p]]_vars
    /\ [](\A p \in Pools : aborting[p] =>
            /\ \A t \in Range(work_queue[p]) :
                  /\ attempts[t] = 0
                  /\ outcome[t] = "pending"
                  /\ t \notin Executing(p)
                  /\ t \notin Range(popped[p])
            /\ Executing(p) \subseteq Range(popped[p])
            /\ \A w \in Workers(p) : pc[w] # "pop")

\* C19 witness: the flag is set, a task is left in the queue, one worker has
\* left its loop without popping it and another is still executing a task
\* it dequeued earlier.
C19_Witness ==
    /\ aborting[1]
    /\ work_queue[1] # <<>>
    /\ Executing(1) # {}
    /\ \E w \in Workers(1) : pc[w] = "exited"

\* C20: the assertion of line 1501 never fails. A worker reaches front/pop
\* only with a non-empty queue, and a worker that finds the queue empty and
\* the flag clear (after a spurious wakeup, or after another worker took the
\* task it was woken for) goes back to wait without popping.
C20_PopAssertionHolds ==
    /\ [](\A w \in WorkerIds :
            /\ pc[w] # "assert_failed"
            /\ pc[w] = "pop" => work_queue[w[1]] # <<>>)
    /\ [][\A w \in WorkerIds :
            /\ pc[w] = "pred" /\ pc'[w] # "pred"
            /\ work_queue[w[1]] = <<>> /\ ~aborting[w[1]]
            => pc'[w] = "waiting" /\ popped' = popped /\ cur' = cur]_vars

\* C20 witness: two workers compete for one task: one is about to pop it,
\* the other has been woken and will find the queue empty.
C20_Witness ==
    \E w \in Workers(1) : \E v \in Workers(1) :
        /\ pc[w] = "pop"
        /\ pc[v] = "relock"
        /\ Len(work_queue[1]) = 1
        /\ ~aborting[1]

NoDup(q) == \A i, j \in 1..Len(q) : q[i] = q[j] => i = j

\* C21: a task is dequeued by at most one worker and run at most once: the
\* dequeue history of a pool never names a task twice, two workers never
\* hold the same task, a dequeued task is not in the queue and is never
\* pushed again, and a task whose run has ended is held by no worker.
C21_DequeuedAndRunOnce ==
    /\ [](\A p \in Pools :
            /\ NoDup(popped[p])
            /\ NoDup(pushed[p])
            /\ Range(popped[p]) \cap Range(work_queue[p]) = {}
            /\ Cardinality(Executing(p)) =
                   Cardinality({w \in Workers(p) : pc[w] \in RunPcs}))
    /\ [](\A w, v \in WorkerIds : w # v /\ cur[w] # 0 => cur[w] # cur[v])
    /\ [](\A t \in TaskIds : \A w \in WorkerIds :
            outcome[t] \in {"value", "failure"} => cur[w] # t)

\* C21 witness: two workers of the pool are running two different tasks at
\* the same time.
C21_Witness ==
    \E w, v \in Workers(1) :
        /\ w # v
        /\ pc[w] = "run" /\ pc[v] = "run"
        /\ cur[w] # 0 /\ cur[v] # 0 /\ cur[w] # cur[v]

\* ---------------------------------------------------------------- ex08, ex09
\* One to MaxCas threads, each running the loop of ex08::test or of
\* ex09::test on the same std::atomic<int> a = 6.
Forms == {"ex08", "ex09"}

Started == {t \in CasThreads : form[t] # "none"}

CasInit ==
    /\ cas_a = 6
    /\ form \in [CasThreads -> Forms \cup {"none"}]
    /\ form[1] # "none"
    /\ cas_pc = [t \in CasThreads |->
                   IF form[t] = "ex08" THEN "mul"
                   ELSE IF form[t] = "ex09" THEN "load" ELSE "off"]
    /\ expected = [t \in CasThreads |-> 0]
    /\ desired = [t \in CasThreads |-> 0]
    /\ fails = [t \in CasThreads |-> 0]

InitCas == InitPool(0) /\ CasInit /\ HsOff /\ AvgOff /\ UlOff /\ GateOff /\ MemOff

notCas == <<poolAll, hsVars, avgVars, ulVars, gateVars, memVars>>

\* ex08 lines 190-192, 201: the user-defined operator*= has an empty body.
CasMulNoop(t) ==
    /\ cas_pc[t] = "mul"
    /\ cas_pc' = [cas_pc EXCEPT ![t] = "load"]
    /\ UNCHANGED <<cas_a, form, expected, desired, fails, notCas>>

\* ex08 lines 209-210: expected = a.load(); desired = expected * 9.
\* ex09 line 234: int expected = a.load().
CasLoad(t) ==
    /\ cas_pc[t] = "load"
    /\ expected' = [expected EXCEPT ![t] = cas_a]
    /\ desired' = [desired EXCEPT ![t] = IF form[t] = "ex08" THEN cas_a * 9 ELSE @]
    /\ cas_pc' = [cas_pc EXCEPT ![t] = "cas"]
    /\ UNCHANGED <<cas_a, form, fails, notCas>>

\* The second argument of the compare_exchange_weak call: desired in ex08
\* (line 211), expected * 9 evaluated at the call in ex09 (line 235).
Desired(t) == IF form[t] = "ex08" THEN desired[t] ELSE expected[t] * 9

\* compare_exchange_weak stores only when a holds the expected value.
ExchangeOkAlways(now, exp) == TRUE

ExchangeOk(now, exp) == now = exp

\* Where a failed exchange continues: ex08 runs the loop body again, ex09
\* only repeats the call.
AfterFailure(t) == IF form[t] = "ex08" THEN "load" ELSE "cas"

CountFail(n) == IF n < MaxFails THEN n + 1 ELSE n

\* The exchange succeeds: one indivisible compare and store.
CasSucceed(t) ==
    /\ cas_pc[t] = "cas"
    /\ ExchangeOk(cas_a, expected[t])
    /\ cas_a' = Desired(t)
    /\ cas_pc' = [cas_pc EXCEPT ![t] = "done"]
    /\ UNCHANGED <<form, expected, desired, fails, notCas>>

\* The exchange fails because a holds another value: a is left alone and
\* its value is written to expected.
CasFail(t) ==
    /\ cas_pc[t] = "cas"
    /\ ~ExchangeOk(cas_a, expected[t])
    /\ expected' = [expected EXCEPT ![t] = cas_a]
    /\ fails' = [fails EXCEPT ![t] = CountFail(@)]
    /\ cas_pc' = [cas_pc EXCEPT ![t] = AfterFailure(t)]
    /\ UNCHANGED <<cas_a, form, desired, notCas>>

\* The weak form may fail although a holds the expected value.
CasSpurious(t) ==
    /\ cas_pc[t] = "cas"
    /\ cas_a = expected[t]
    /\ fails[t] < MaxFails
    /\ expected' = [expected EXCEPT ![t] = cas_a]
    /\ fails' = [fails EXCEPT ![t] = CountFail(@)]
    /\ cas_pc' = [cas_pc EXCEPT ![t] = AfterFailure(t)]
    /\ UNCHANGED <<cas_a, form, desired, notCas>>

CasNext ==
    \E t \in CasThreads :
        \/ CasMulNoop(t)
        \/ CasLoad(t)
        \/ CasSucceed(t)
        \/ CasFail(t)
        \/ CasSpurious(t)

SpecCas == InitCas /\ [][CasNext]_vars

CasDone == {t \in CasThreads : cas_pc[t] = "done"}

\* C22: the loops multiply a by 9 atomically. a changes only in a
\* successful exchange, and then to 9 times the value it held just before;
\* a failed exchange, spurious or not, leaves a alone, refreshes expected
\* and retries; so no multiplication is lost: a is 6 * 9^k when k threads
\* have left their loop (54 for one thread), whichever of the two forms
\* each thread runs.
C22_MultipliesAtomically ==
    /\ [][/\ cas_a' # cas_a =>
                \E t \in CasThreads :
                    /\ cas_pc[t] = "cas" /\ cas_pc'[t] = "done"
                    /\ cas_a' = 9 * cas_a
          /\ \A t \in CasThreads :
                /\ cas_pc[t] = "cas" /\ cas_pc'[t] = "done" => cas_a' = 9 * cas_a
                /\ cas_pc[t] = "cas" /\ fails'[t] # fails[t] =>
                      /\ cas_a' = cas_a
                      /\ expected'[t] = cas_a
                      /\ cas_pc'[t] = AfterFailure(t)]_vars
    /\ [](cas_a = 6 * 9 ^ Cardinality(CasDone))

\* C22 witness: an ex08 thread and an ex09 thread have both left their
\* loops, each after a failed exchange, and a is 6 * 9 * 9.
C22_Witness ==
    /\ cas_pc = [t \in CasThreads |-> IF t \in 1..2 THEN "done" ELSE cas_pc[t]]
    /\ form[1] = "ex08" /\ form[2] = "ex09"
    /\ fails[1] >= 1 /\ fails[2] >= 1
    /\ cas_a = 486

\* ---------------------------------------------------------------- ex28, ex29
\* The main thread ("A") waits on cv for ready; thread_b ("B") runs
\* prep_work, sets ready under the lock and notifies.
HsInit ==
    /\ hs_form \in {"ex28", "ex29"}
    /\ prepped = FALSE
    /\ ready = FALSE
    /\ hs_held = {}
    /\ hs_pc = [t \in {"A", "B"} |-> IF t = "A" THEN "lock" ELSE "prep"]
    /\ hs_waited = FALSE
    /\ hs_spur = 0

InitHs == InitPool(0) /\ CasOff /\ HsInit /\ AvgOff /\ UlOff /\ GateOff /\ MemOff

notHs == <<poolAll, casVars, avgVars, ulVars, gateVars, memVars>>

\* How the main thread locks: std::unique_lock on a std::mutex (ex28),
\* std::shared_lock on a std::shared_mutex (ex29).
ModeA == IF hs_form = "ex29" THEN "shared" ELSE "excl"

\* An exclusive lock needs the mutex free; a shared lock needs no exclusive
\* owner.
CanLock(mode) ==
    IF mode = "excl" THEN hs_held = {}
    ELSE \A h \in hs_held : h[2] # "excl"

\* lines 871, 931: prepped = true
HsPrep ==
    /\ hs_pc["B"] = "prep"
    /\ prepped' = TRUE
    /\ hs_pc' = [hs_pc EXCEPT !["B"] = "lock"]
    /\ UNCHANGED <<hs_form, ready, hs_held, hs_waited, hs_spur, notHs>>

\* lines 890, 944: std::lock_guard lk(...)
HsLockB ==
    /\ hs_pc["B"] = "lock"
    /\ CanLock("excl")
    /\ hs_held' = hs_held \cup {<<"B", "excl">>}
    /\ hs_pc' = [hs_pc EXCEPT !["B"] = "set"]
    /\ UNCHANGED <<hs_form, prepped, ready, hs_waited, hs_spur, notHs>>

\* lines 891, 945: ready = true
HsSetReady ==
    /\ hs_pc["B"] = "set"
    /\ ready' = TRUE
    /\ hs_pc' = [hs_pc EXCEPT !["B"] = "unlock"]
    /\ UNCHANGED <<hs_form, prepped, hs_held, hs_waited, hs_spur, notHs>>

\* lines 892, 946: lk goes out of scope.
HsUnlockB ==
    /\ hs_pc["B"] = "unlock"
    /\ hs_held' = hs_held \ {<<"B", "excl">>}
    /\ hs_pc' = [hs_pc EXCEPT !["B"] = "notify"]
    /\ UNCHANGED <<hs_form, prepped, ready, hs_waited, hs_spur, notHs>>

\* lines 893, 947: cv.notify_one() wakes the main thread if it is blocked
\* in wait, and does nothing otherwise.
HsWakesNobody(p) == FALSE

HsWakes(p) == p = "waiting"

HsNotify ==
    /\ hs_pc["B"] = "notify"
    /\ hs_pc' = [hs_pc EXCEPT !["B"] = "main_work",
                              !["A"] = IF HsWakes(@) THEN "relock" ELSE @]
    /\ UNCHANGED <<hs_form, prepped, ready, hs_held, hs_waited, hs_spur, notHs>>

\* lines 894, 948: main_work(), then the thread function returns.
HsMainWork ==
    /\ hs_pc["B"] = "main_work"
    /\ hs_pc' = [hs_pc EXCEPT !["B"] = "done"]
    /\ UNCHANGED <<hs_form, prepped, ready, hs_held, hs_waited, hs_spur, notHs>>

\* lines 899, 953: the main thread takes its lock; also the re-acquisition
\* inside wait after a wakeup.
HsLockA ==
    /\ hs_pc["A"] \in {"lock", "relock"}
    /\ CanLock(ModeA)
    /\ hs_held' = hs_held \cup {<<"A", ModeA>>}
    /\ hs_pc' = [hs_pc EXCEPT !["A"] = "pred"]
    /\ UNCHANGED <<hs_form, prepped, ready, hs_waited, hs_spur, notHs>>

\* lines 900, 954: cv.wait(lk, pred) is while (!pred()) wait(lk): the
\* predicate is false, the lock is released and the thread blocks.
HsWait ==
    /\ hs_pc["A"] = "pred"
    /\ ~ready
    /\ hs_held' = hs_held \ {<<"A", ModeA>>}
    /\ hs_waited' = TRUE
    /\ hs_pc' = [hs_pc EXCEPT !["A"] = "waiting"]
    /\ UNCHANGED <<hs_form, prepped, ready, hs_spur, notHs>>

\* The predicate is true: wait returns and lk is released at the end of
\* the block (lines 901, 955).
HsLeaveWait ==
    /\ hs_pc["A"] = "pred"
    /\ ready
    /\ hs_held' = hs_held \ {<<"A", ModeA>>}
    /\ hs_pc' = [hs_pc EXCEPT !["A"] = "assert"]
    /\ UNCHANGED <<hs_form, prepped, ready, hs_waited, hs_spur, notHs>>

HsSpurious ==
    /\ hs_pc["A"] = "waiting"
    /\ hs_spur < MaxSpurious
    /\ hs_spur' = hs_spur + 1
    /\ hs_pc' = [hs_pc EXCEPT !["A"] = "relock"]
    /\ UNCHANGED <<hs_form, prepped, ready, hs_held, hs_waited, notHs>>

\* lines 904, 958: assert(prepped)
HsAssert ==
    /\ hs_pc["A"] = "assert"
    /\ hs_pc' = [hs_pc EXCEPT !["A"] = IF prepped THEN "join" ELSE "assert_failed"]
    /\ UNCHANGED <<hs_form, prepped, ready, hs_held, hs_waited, hs_spur, notHs>>

\* lines 905, 959: thread_b.join()
HsJoin ==
    /\ hs_pc["A"] = "join"
    /\ hs_pc["B"] = "done"
    /\ hs_pc' = [hs_pc EXCEPT !["A"] = "done"]
    /\ UNCHANGED <<hs_form, prepped, ready, hs_held, hs_waited, hs_spur, notHs>>

HsStepB == HsPrep \/ HsLockB \/ HsSetReady \/ HsUnlockB \/ HsNotify \/ HsMainWork

HsStepA == HsLockA \/ HsWait \/ HsLeaveWait \/ HsAssert \/ HsJoin

HsNext ==
    \/ HsPrep
    \/ HsLockB
    \/ HsSetReady
    \/ HsUnlockB
    \/ HsNotify
    \/ HsMainWork
    \/ HsLockA
    \/ HsWait
    \/ HsLeaveWait
    \/ HsSpurious
    \/ HsAssert
    \/ HsJoin

SpecHs == InitHs /\ [][HsNext]_vars

\* Both threads are scheduled; a spurious wakeup is never forced.
FairHs == SpecHs /\ WF_vars(HsStepA) /\ WF_vars(HsStepB)

PastWait == {"assert", "join", "done"}

\* C23: the main thread is past cv.wait only when ready is true, which
\* thread B sets under the lock after prep_work, so prepped is true and
\* the assertion holds; and the main thread always gets past the wait,
\* whether or not it blocked before thread B's notify_one.
C23_HandshakeCompletes ==
    /\ [](hs_pc["A"] \in PastWait => ready /\ prepped)
    /\ [](ready => prepped /\ hs_pc["B"] \in {"unlock", "notify", "main_work", "done"})
    /\ [](hs_pc["A"] # "assert_failed")
    /\ (hs_pc["A"] = "lock") ~> (hs_pc["A"] = "done")

\* C23 witness: the main thread has finished without ever blocking in wait:
\* thread B had set ready and notified before the main thread tested the
\* predicate.
C23_Witness ==
    /\ hs_pc["A"] = "done"
    /\ hs_pc["B"] = "done"
    /\ ~hs_waited
    /\ hs_form = "ex29"

\* ---------------------------------------------------------------- ex20, ex21
\* A producer thread ("P") calling add_value and a consumer thread ("C")
\* calling get_current_average once, on a StreamingAverage whose sum and
\* count live in an ex18::Guarded.
Xs == 1..MaxX

AvgInit ==
    /\ avg_form \in {"ex20", "ex21"}
    /\ m_sum = 0
    /\ m_count = 0
    /\ avg_mtx = "none"
    /\ avg_pc = [t \in {"P", "C"} |-> "idle"]
    /\ avg_x = 0
    /\ nadds = 0
    /\ order = "none"
    /\ got_sum = 0
    /\ got_count = 0
    /\ snap1 = <<0, 0>>
    /\ snap2 = <<0, 0>>
    /\ gap_adds = 0

InitAvg == InitPool(0) /\ CasOff /\ HsOff /\ AvgInit /\ UlOff /\ GateOff /\ MemOff

notAvg == <<poolAll, casVars, hsVars, ulVars, gateVars, memVars>>

\* std::mutex is not recursive: lock returns only when no thread, the
\* caller included, owns the mutex.
MutexRecursive(m, who) == m \in {"none", who}

MutexFree(m, who) == m = "none"

\* The producer calls add_value(x).
AddCall(x) ==
    /\ avg_pc["P"] = "idle"
    /\ nadds < MaxAdds
    /\ nadds' = nadds + 1
    /\ avg_x' = x
    /\ avg_pc' = [avg_pc EXCEPT !["P"] = "p_lock"]
    /\ UNCHANGED <<avg_form, m_sum, m_count, avg_mtx, order, got_sum, got_count,
                   snap1, snap2, gap_adds, notAvg>>

\* add_value takes the lock (ex15 line 464, through Guarded::lock in ex18).
AddLock ==
    /\ avg_pc["P"] = "p_lock"
    /\ MutexFree(avg_mtx, "P")
    /\ avg_mtx' = "P"
    /\ avg_pc' = [avg_pc EXCEPT !["P"] = "p_add"]
    /\ UNCHANGED <<avg_form, m_sum, m_count, avg_x, nadds, order, got_sum,
                   got_count, snap1, snap2, gap_adds, notAvg>>

\* m_sum += x; m_count += 1; the lock is released at the end of add_value.
AddValue ==
    /\ avg_pc["P"] = "p_add"
    /\ m_sum' = m_sum + avg_x
    /\ m_count' = m_count + 1
    /\ avg_mtx' = "none"
    /\ gap_adds' = IF avg_pc["C"] = "lock_b" THEN gap_adds + 1 ELSE gap_adds
    /\ avg_pc' = [avg_pc EXCEPT !["P"] = "idle"]
    /\ UNCHANGED <<avg_form, avg_x, nadds, order, got_sum, got_count,
                   snap1, snap2, notAvg>>

\* The consumer calls get_current_average. The two operands of
\* get_sum() / get_count() are evaluated in an unspecified order.
GetCall(o) ==
    /\ avg_pc["C"] = "idle"
    /\ order' = o
    /\ avg_pc' = [avg_pc EXCEPT !["C"] = IF avg_form = "ex21" THEN "lock1" ELSE "lock_a"]
    /\ UNCHANGED <<avg_form, m_sum, m_count, avg_mtx, avg_x, nadds, got_sum,
                   got_count, snap1, snap2, gap_adds, notAvg>>

\* ex21 line 651: auto h = m_sc.lock();   (LOCK 1)
GetLock1 ==
    /\ avg_pc["C"] = "lock1"
    /\ MutexFree(avg_mtx, "C")
    /\ avg_mtx' = "C"
    /\ avg_pc' = [avg_pc EXCEPT !["C"] = "lock_a"]
    /\ UNCHANGED <<avg_form, m_sum, m_count, avg_x, nadds, order, got_sum,
                   got_count, snap1, snap2, gap_adds, notAvg>>

\* m_sc.lock() inside get_sum / get_count (ex18 line 558).
GetLock ==
    /\ avg_pc["C"] \in {"lock_a", "lock_b"}
    /\ MutexFree(avg_mtx, "C")
    /\ avg_mtx' = "C"
    /\ avg_pc' = [avg_pc EXCEPT !["C"] = IF @ = "lock_a" THEN "read_a" ELSE "read_b"]
    /\ UNCHANGED <<avg_form, m_sum, m_count, avg_x, nadds, order, got_sum,
                   got_count, snap1, snap2, gap_adds, notAvg>>

\* std::mutex::lock by the thread that already owns the mutex is undefined:
\* the thread blocks forever (no step), or lock detects the deadlock and
\* throws std::system_error; the exception leaves get_current_average and
\* the unwinding destroys h, which unlocks.
GetRelockThrows ==
    /\ avg_pc["C"] \in {"lock_a", "lock_b"}
    /\ avg_mtx = "C"
    /\ avg_mtx' = "none"
    /\ avg_pc' = [avg_pc EXCEPT !["C"] = "thrown"]
    /\ UNCHANGED <<avg_form, m_sum, m_count, avg_x, nadds, order, got_sum,
                   got_count, snap1, snap2, gap_adds, notAvg>>

\* The Handle returned by m_sc.lock() is a temporary of the return
\* statement: it is destroyed, and the mutex unlocked, when the getter
\* returns.
OwnerKept(who) == who

OwnerAfterGetter(who) == "none"

\* The operand read by the first / second getter call.
ReadsSum(which) == (which = "a") = (order = "sum_first")

\* return m_sc.lock()->m_sum;  /  return m_sc.lock()->m_count;
GetRead ==
    /\ avg_pc["C"] \in {"read_a", "read_b"}
    /\ LET which == IF avg_pc["C"] = "read_a" THEN "a" ELSE "b" IN
       /\ got_sum' = IF ReadsSum(which) THEN m_sum ELSE got_sum
       /\ got_count' = IF ReadsSum(which) THEN got_count ELSE m_count
       /\ snap1' = IF which = "a" THEN <<m_sum, m_count>> ELSE snap1
       /\ snap2' = IF which = "b" THEN <<m_sum, m_count>> ELSE snap2
       /\ gap_adds' = IF which = "a" THEN 0 ELSE gap_adds
       /\ avg_pc' = [avg_pc EXCEPT !["C"] = IF which = "a" THEN "lock_b" ELSE "ret"]
    /\ avg_mtx' = OwnerAfterGetter(avg_mtx)
    /\ UNCHANGED <<avg_form, m_sum, m_count, avg_x, nadds, order, notAvg>>

\* get_current_average returns got_sum / got_count.
GetReturn ==
    /\ avg_pc["C"] = "ret"
    /\ avg_pc' = [avg_pc EXCEPT !["C"] = "returned"]
    /\ UNCHANGED <<avg_form, m_sum, m_count, avg_mtx, avg_x, nadds, order, got_sum,
                   got_count, snap1, snap2, gap_adds, notAvg>>

AvgNext ==
    \/ \E x \in Xs : AddCall(x)
    \/ AddLock
    \/ AddValue
    \/ \E o \in {"sum_first", "count_first"} : GetCall(o)
    \/ GetLock1
    \/ GetLock
    \/ GetRelockThrows
    \/ GetRead
    \/ GetReturn

SpecAvg == InitAvg /\ [][AvgNext]_vars

\* Two averages, each given as <<sum, count>> with a positive count, differ.
AvgDiffers(p, q) == p[1] * q[2] # q[1] * p[2]

Got == <<got_sum, got_count>>

\* C24: ex20's get_current_average reads its two operands under two
\* separate lock acquisitions: between them the consumer does not own the
\* mutex, an add_value can complete, and the result is then made of the sum
\* of one state and the count of another: it is neither the pair of the
\* state the first read saw nor the pair of the state the second read saw.
\* Without an add_value in the gap both reads see the same state.
C24_TornAverage ==
    /\ [](avg_form = "ex20" /\ avg_pc["C"] = "lock_b" => avg_mtx # "C")
    /\ [](avg_form = "ex20" /\ avg_pc["C"] \in {"ret", "returned"} =>
            /\ got_sum = IF order = "sum_first" THEN snap1[1] ELSE snap2[1]
            /\ got_count = IF order = "sum_first" THEN snap2[2] ELSE snap1[2]
            /\ snap2[2] = snap1[2] + gap_adds
            /\ gap_adds = 0 => Got = snap1 /\ Got = snap2
            /\ gap_adds > 0 => Got # snap1 /\ Got # snap2)

\* C24 witness: one add_value ran in the gap of a call made when a value
\* had already been added, and the average returned differs both from the
\* average before that add_value and from the average after it.
C24_Witness ==
    /\ avg_form = "ex20"
    /\ avg_pc["C"] = "returned"
    /\ gap_adds = 1
    /\ snap1[2] >= 1
    /\ got_count >= 1
    /\ AvgDiffers(Got, snap1)
    /\ AvgDiffers(Got, snap2)

UlInit ==
    /\ ul_life = [o \in Locks |-> "none"]
    /\ m_mtx = [o \in Locks |-> 0]
    /\ m_locked = [o \in Locks |-> FALSE]
    /\ mx_locked = [m \in Mutexes |-> FALSE]
    /\ holder = [m \in Mutexes |-> 0]
    /\ ul_end = "run"
    /\ ul_ub = FALSE
    /\ twice = [m \in Mutexes |-> FALSE]

InitUl == InitPool(0) /\ CasOff /\ HsOff /\ AvgOff /\ UlInit /\ GateOff /\ MemOff

notUl == <<poolAll, casVars, hsVars, avgVars, gateVars, memVars>>

\* The state of the example as one record, so that unlock(), which three
\* member functions call, is written once.
UlState ==
    [life |-> ul_life, ptr |-> m_mtx, locked |-> m_locked, mx |-> mx_locked,
     holder |-> holder, end |-> ul_end, ub |-> ul_ub, twice |-> twice]

Become(st) ==
    /\ ul_life' = st.life
    /\ m_mtx' = st.ptr
    /\ m_locked' = st.locked
    /\ mx_locked' = st.mx
    /\ holder' = st.holder
    /\ ul_end' = st.end
    /\ ul_ub' = st.ub
    /\ twice' = st.twice
    /\ UNCHANGED notUl

\* Dereferencing a null m_mtx: the thread is killed.
Crashed(st) == [st EXCEPT !.end = "crashed", !.ub = TRUE]

\* lines 356-361: m_mtx->lock(); m_locked = true. There is no test of
\* m_mtx or m_locked. Locking a std::mutex this thread has locked is
\* undefined: the thread blocks forever or lock throws.
LockOutcomes(st, o) ==
    IF st.ptr[o] = 0 THEN {Crashed(st)}
    ELSE IF st.mx[st.ptr[o]]
         THEN {[st EXCEPT !.end = "blocked", !.ub = TRUE], [st EXCEPT !.ub = TRUE]}
         ELSE {[st EXCEPT !.mx[st.ptr[o]] = TRUE,
                          !.locked[o] = TRUE,
                          !.holder[st.ptr[o]] = o]}

\* lines 363-368: m_mtx->unlock(); m_locked = false. There is no test of
\* m_mtx or m_locked. Unlocking a std::mutex that is not locked is
\* undefined: the call goes through or the thread is killed.
UnlockOutcomes(st, o) ==
    IF st.ptr[o] = 0 THEN {Crashed(st)}
    ELSE IF ~st.mx[st.ptr[o]]
         THEN {Crashed(st),
               [st EXCEPT !.locked[o] = FALSE, !.ub = TRUE, !.twice[st.ptr[o]] = TRUE]}
         ELSE {[st EXCEPT !.mx[st.ptr[o]] = FALSE,
                          !.locked[o] = FALSE,
                          !.holder[st.ptr[o]] = 0]}

\* if (m_locked) unlock();   (lines 379-382 and 390-393)
UnlockIfLocked(st, o) == IF st.locked[o] THEN UnlockOutcomes(st, o) ELSE {st}

\* The two std::exchange lines (372-373, 383-384), in order: the source's
\* member is read and cleared, then the destination's is written.
Take(st, dst, src) ==
    LET p == st.ptr[src]
        l == st.locked[src]
        cleared == [st EXCEPT !.ptr[src] = 0, !.locked[src] = FALSE]
    IN  [cleared EXCEPT !.ptr[dst] = p,
                        !.locked[dst] = l,
                        !.holder = [m \in Mutexes |->
                                      IF m = p /\ st.holder[m] = src THEN dst
                                      ELSE st.holder[m]]]

\* lines 338-342: the default constructor (p = 0) and unique_lock(Mutex *p);
\* neither locks.
UlConstruct(o, p) ==
    /\ ul_end = "run"
    /\ ul_life[o] = "none"
    /\ Become([UlState EXCEPT !.life[o] = "live", !.ptr[o] = p, !.locked[o] = FALSE])

UlLock(o) ==
    /\ ul_end = "run"
    /\ ul_life[o] = "live"
    /\ \E st \in LockOutcomes(UlState, o) : Become(st)

UlUnlock(o) ==
    /\ ul_end = "run"
    /\ ul_life[o] = "live"
    /\ \E st \in UnlockOutcomes(UlState, o) : Become(st)

\* lines 370-374: unique_lock(unique_lock &&rhs)
UlMoveConstruct(dst, src) ==
    /\ ul_end = "run"
    /\ ul_life[dst] = "none"
    /\ ul_life[src] = "live"
    /\ Become(Take([UlState EXCEPT !.life[dst] = "live"], dst, src))

\* lines 376-386: operator=(unique_lock &&rhs); rhs may be *this.
UlMoveAssign(dst, src) ==
    /\ ul_end = "run"
    /\ ul_life[dst] = "live"
    /\ ul_life[src] = "live"
    /\ \E st \in UnlockIfLocked(UlState, dst) :
          Become(IF st.end = "run" THEN Take(st, dst, src) ELSE st)

\* lines 388-394: ~unique_lock()
UlDestroy(o) ==
    /\ ul_end = "run"
    /\ ul_life[o] = "live"
    /\ \E st \in UnlockIfLocked(UlState, o) :
          Become(IF st.end = "run" THEN [st EXCEPT !.life[o] = "dead"] ELSE st)

UlNext ==
    \/ \E o \in Locks, p \in Mutexes \cup {0} : UlConstruct(o, p)
    \/ \E o \in Locks : UlLock(o)
    \/ \E o \in Locks : UlUnlock(o)
    \/ \E dst \in Locks, src \in Locks : UlMoveConstruct(dst, src)
    \/ \E dst \in Locks, src \in Locks : UlMoveAssign(dst, src)
    \/ \E o \in Locks : UlDestroy(o)

SpecUl == InitUl /\ [][UlNext]_vars

Live == {o \in Locks : ul_life[o] = "live"}

\* Object o holds its mutex locked: it points to a mutex that is locked,
\* and that mutex was locked through o or handed to o by a move.
HoldsLocked(o) ==
    /\ m_mtx[o] # 0
    /\ mx_locked[m_mtx[o]]
    /\ holder[m_mtx[o]] = o

\* C26 (as claimed): as long as no operation with undefined behaviour has
\* been executed, owns_lock() is true exactly for the object that holds its
\* mutex locked, at most one object owns a given mutex, no mutex stays
\* locked once every object is destroyed, and a move (other than onto
\* itself) leaves the source without mutex and not owning and gives the
\* destination the source's mutex and flag.
C26_OwnsLockIsExact ==
    /\ [](~ul_ub =>
            /\ \A o \in Live : m_locked[o] <=> HoldsLocked(o)
            /\ \A m \in Mutexes :
                  Cardinality({o \in Live : m_locked[o] /\ m_mtx[o] = m}) <= 1
            /\ \A m \in Mutexes : ~twice[m]
            /\ (Live = {} => \A m \in Mutexes : ~mx_locked[m]))
    /\ [][\A dst, src \in Locks :
            /\ dst # src
            /\ UlMoveConstruct(dst, src) \/ UlMoveAssign(dst, src)
            /\ ul_end' = "run"
            => /\ m_mtx'[src] = 0 /\ ~m_locked'[src]
               /\ m_mtx'[dst] = m_mtx[src] /\ m_locked'[dst] = m_locked[src]]_vars

\* ---------------------------------------------------------------- ex41
\* ex41::test with MaxThreads threads in place of ten. The state after
\* lines 1306-1309: ready is locked by the main thread through lk, both
\* vectors are empty.
GateInit ==
    /\ g_pc = "create"
    /\ g_i = 0
    /\ g_k = 0
    /\ ready_owner = GMain
    /\ lk_owns = TRUE
    /\ threads = <<>>
    /\ others = <<>>
    /\ joinable = [i \in GThreads |-> FALSE]
    /\ t_pc = [i \in GThreads |-> "absent"]
    /\ scan = [i \in GThreads |-> 0]
    /\ found = [i \in GThreads |-> FALSE]
    /\ unlocks = 0
    /\ bad_unlock = FALSE

InitGate == InitPool(0) /\ CasOff /\ HsOff /\ AvgOff /\ UlOff /\ GateInit /\ MemOff

notGate == <<poolAll, casVars, hsVars, avgVars, ulVars, memVars>>

\* line 1326: std::thread t(task): the new thread starts at the gate.
GCreate ==
    /\ g_pc = "create"
    /\ t_pc' = [t_pc EXCEPT ![g_i] = "gate"]
    /\ joinable' = [joinable EXCEPT ![g_i] = TRUE]
    /\ g_pc' = "push"
    /\ UNCHANGED <<g_i, g_k, ready_owner, lk_owns, threads, others, scan, found,
                   unlocks, bad_unlock, notGate>>

\* lines 1327-1334 and the loop header: t is moved into threads when i is
\* odd, into others when it is even; ++i.
GPush ==
    /\ g_pc = "push"
    /\ IF g_i % 2 = 1
       THEN threads' = Append(threads, g_i) /\ UNCHANGED others
       ELSE others' = Append(others, g_i) /\ UNCHANGED threads
    /\ g_i' = g_i + 1
    /\ g_pc' = IF g_i + 1 < MaxThreads THEN "create" ELSE "unlock"
    /\ UNCHANGED <<g_k, ready_owner, lk_owns, joinable, t_pc, scan, found,
                   unlocks, bad_unlock, notGate>>

\* line 1338: ready.unlock(), on the mutex itself: lk is not told.
GUnlock ==
    /\ g_pc = "unlock"
    /\ bad_unlock' = (bad_unlock \/ ready_owner # GMain)
    /\ ready_owner' = GNone
    /\ unlocks' = unlocks + 1
    /\ g_k' = 1
    /\ g_pc' = "join_threads"
    /\ UNCHANGED <<g_i, lk_owns, threads, others, joinable, t_pc, scan, found, notGate>>

\* lines 1341-1344: t.join() returns when the thread has finished, and
\* leaves t without id.
GJoinThreads ==
    /\ g_pc = "join_threads"
    /\ IF g_k > Len(threads)
       THEN g_pc' = "join_others" /\ g_k' = 1 /\ UNCHANGED joinable
       ELSE /\ t_pc[threads[g_k]] = "done"
            /\ joinable' = [joinable EXCEPT ![threads[g_k]] = FALSE]
            /\ g_k' = g_k + 1
            /\ UNCHANGED g_pc
    /\ UNCHANGED <<g_i, ready_owner, lk_owns, threads, others, t_pc, scan, found,
                   unlocks, bad_unlock, notGate>>

\* lines 1346-1349
GJoinOthers ==
    /\ g_pc = "join_others"
    /\ IF g_k > Len(others)
       THEN g_pc' = "exit" /\ g_k' = 0 /\ UNCHANGED joinable
       ELSE /\ t_pc[others[g_k]] = "done"
            /\ joinable' = [joinable EXCEPT ![others[g_k]] = FALSE]
            /\ g_k' = g_k + 1
            /\ UNCHANGED g_pc
    /\ UNCHANGED <<g_i, ready_owner, lk_owns, threads, others, t_pc, scan, found,
                   unlocks, bad_unlock, notGate>>

\* line 1350: the locals are destroyed in reverse order; ~unique_lock calls
\* ready.unlock() when lk owns. Unlocking a mutex the thread does not hold
\* is undefined: the call goes through, or the thread is killed.
GScopeExit ==
    /\ g_pc = "exit"
    /\ IF lk_owns
       THEN /\ unlocks' = unlocks + 1
            /\ bad_unlock' = (bad_unlock \/ ready_owner # GMain)
            /\ ready_owner' = GNone
            /\ IF ready_owner = GMain
               THEN g_pc' = "done"
               ELSE g_pc' \in {"done", "crashed"}
       ELSE g_pc' = "done" /\ UNCHANGED <<unlocks, bad_unlock, ready_owner>>
    /\ lk_owns' = FALSE
    /\ UNCHANGED <<g_i, g_k, threads, others, joinable, t_pc, scan, found, notGate>>

\* line 1315: (void)std::lock_guard(ready): a temporary lock_guard, which
\* locks ready and unlocks it at the end of the statement.
GateFreeAlways(owner) == TRUE

GateFree(owner) == owner = GNone

TGateLock(i) ==
    /\ t_pc[i] = "gate"
    /\ GateFree(ready_owner)
    /\ ready_owner' = i
    /\ t_pc' = [t_pc EXCEPT ![i] = "gate_unlock"]
    /\ UNCHANGED <<g_pc, g_i, g_k, lk_owns, threads, others, joinable, scan, found,
                   unlocks, bad_unlock, notGate>>

TGateUnlock(i) ==
    /\ t_pc[i] = "gate_unlock"
    /\ bad_unlock' = (bad_unlock \/ ready_owner # i)
    /\ ready_owner' = GNone
    /\ scan' = [scan EXCEPT ![i] = 1]
    /\ t_pc' = [t_pc EXCEPT ![i] = "search"]
    /\ UNCHANGED <<g_pc, g_i, g_k, lk_owns, threads, others, joinable, found,
                   unlocks, notGate>>

\* t.get_id(): the id of the thread t stands for (here its creation index
\* plus one), or the default id 0 once t has been joined.
GetId(i) == IF joinable[i] THEN i + 1 ELSE 0

\* lines 1317-1320: std::find_if over threads with t.get_id() == my_id, one
\* element per step.
TSearch(i) ==
    /\ t_pc[i] = "search"
    /\ IF scan[i] > Len(threads)
       THEN /\ found' = [found EXCEPT ![i] = FALSE]
            /\ t_pc' = [t_pc EXCEPT ![i] = "done"]
            /\ UNCHANGED scan
       ELSE IF GetId(threads[scan[i]]) = i + 1
            THEN /\ found' = [found EXCEPT ![i] = TRUE]
                 /\ t_pc' = [t_pc EXCEPT ![i] = "done"]
                 /\ UNCHANGED scan
            ELSE /\ scan' = [scan EXCEPT ![i] = @ + 1]
                 /\ UNCHANGED <<found, t_pc>>
    /\ UNCHANGED <<g_pc, g_i, g_k, ready_owner, lk_owns, threads, others, joinable,
                   unlocks, bad_unlock, notGate>>

GateNext ==
    \/ GCreate
    \/ GPush
    \/ GUnlock
    \/ GJoinThreads
    \/ GJoinOthers
    \/ GScopeExit
    \/ \E i \in GThreads : TGateLock(i)
    \/ \E i \in GThreads : TGateUnlock(i)
    \/ \E i \in GThreads : TSearch(i)

SpecGate == InitGate /\ [][GateNext]_vars

PastGate == {"gate_unlock", "search", "done"}

\* C27: no thread is past its gate before the main thread has released
\* ready, which it does after the creation loop has ended with every thread
\* in one of the two vectors; once a thread is past the gate neither vector
\* gains or loses an element; and a thread's search finds its own id
\* exactly when it was created at an odd index.
C27_GateHoldsUntilPopulated ==
    /\ [](\A i \in GThreads : t_pc[i] \in PastGate =>
            /\ g_pc \notin {"create", "push", "unlock"}
            /\ unlocks >= 1
            /\ g_i = MaxThreads
            /\ Len(threads) + Len(others) = MaxThreads)
    /\ [][(\E i \in GThreads : t_pc[i] \in PastGate) =>
             threads' = threads /\ others' = others]_vars
    /\ [](\A i \in GThreads : t_pc[i] = "done" => (found[i] <=> i % 2 = 1))

\* C27 witness: the thread created at index 1 has found itself and has been
\* joined by the main thread, while the thread created at index 0 is
\* still searching the vector.
C27_Witness ==
    /\ t_pc[1] = "done" /\ found[1]
    /\ ~joinable[1]
    /\ t_pc[0] = "search"
    /\ g_pc = "join_threads"

\* C28 (as claimed): ready is only unlocked by the thread that holds it, and
\* the main thread calls ready.unlock() at most once over the function.
C28_ReadyUnlockedOnceByHolder ==
    ~bad_unlock /\ unlocks <= 1

\* ---------------------------------------------------------------- ch08 ex05
\* example_resource: a bump allocator over char big_buffer[10000].
BufSize == 10000

\* alignof(std::max_align_t)
MaxAlign == 16

\* size_t arithmetic is modulo 2^64. The modulus used here, 2^30, is like
\* 2^64 a multiple of every power-of-two alignment requested and larger
\* than every operand, so each expression below has the value it has in
\* the program.
SizeMod == 2 ^ 30

\* The requests tried: sizes around the edges of the buffer, alignments
\* that are powers of two, one of them above alignof(max_align_t).
Sizes == {0, 1, 7, 5000, 9993, 10001}
Aligns == {1, 2, 8, 16, 32}

MemInit ==
    /\ index = 0
    /\ blocks = <<>>
    /\ mr_req = <<0, 0>>
    /\ mr_last = "none"
    /\ nreq = 0
    /\ nfree = 0

InitMem == InitPool(0) /\ CasOff /\ HsOff /\ AvgOff /\ UlOff /\ GateOff /\ MemInit

notMem == <<poolAll, casVars, hsVars, avgVars, ulVars, gateVars>>

\* Unary minus on a size_t.
Neg(x) == (SizeMod - x) % SizeMod

\* -index % align   (line 131)
PadNoNegation(i, align) == i % align

Pad(i, align) == Neg(i) % align

\* The condition of the if at lines 131-132; || evaluates its right operand
\* only when the left one is false, so no subtraction below wraps.
Rejects(i, bytes, align) ==
    \/ align > MaxAlign
    \/ Pad(i, align) > BufSize - i
    \/ bytes > BufSize - i - Pad(i, align)

\* index += (-index % align) + bytes   (line 135)
Bumped(i, bytes, align) == (i + ((Pad(i, align) + bytes) % SizeMod)) % SizeMod

\* do_allocate, lines 129-137; the block is &big_buffer[index - bytes].
DoAllocate(bytes, align) ==
    /\ mr_last # "off"
    /\ nreq < MaxReqs
    /\ nreq' = nreq + 1
    /\ mr_req' = <<bytes, align>>
    /\ IF Rejects(index, bytes, align)
       THEN /\ mr_last' = "bad_alloc"
            /\ UNCHANGED <<index, blocks>>
       ELSE /\ index' = Bumped(index, bytes, align)
            /\ blocks' = Append(blocks,
                   [off |-> (Bumped(index, bytes, align) + Neg(bytes)) % SizeMod,
                    bytes |-> bytes, align |-> align])
            /\ mr_last' = "ok"
    /\ UNCHANGED <<nfree, notMem>>

\* do_deallocate, lines 139-143: the body is empty.
DoDeallocate ==
    /\ mr_last # "off"
    /\ blocks # <<>>
    /\ nfree < MaxReqs
    /\ nfree' = nfree + 1
    /\ mr_last' = "freed"
    /\ UNCHANGED <<index, blocks, mr_req, nreq, notMem>>

MemNext ==
    \/ \E bytes \in Sizes, align \in Aligns : DoAllocate(bytes, align)
    \/ DoDeallocate

SpecMem == InitMem /\ [][MemNext]_vars

\* The padding in the mathematical sense: the distance from i to the next
\* multiple of align.
PadTo(i, align) == (align - (i % align)) % align

Disjoint(b, c) == b.off + b.bytes <= c.off \/ c.off + c.bytes <= b.off

\* C29: every block returned starts at a multiple of its alignment, lies
\* inside the buffer and is disjoint from every block returned before;
\* index never decreases, do_deallocate leaves it alone; a request with
\* align > alignof(max_align_t), or whose padding plus size exceeds what is
\* left, ends with bad_alloc and leaves index unchanged, and every other
\* request returns the block that starts at the next multiple of align.
C29_AlignedDisjointBlocks ==
    /\ [](/\ index <= BufSize
          /\ \A k \in 1..Len(blocks) :
                /\ blocks[k].off % blocks[k].align = 0
                /\ blocks[k].off >= 0
                /\ blocks[k].off + blocks[k].bytes <= BufSize
                /\ blocks[k].off + blocks[k].bytes <= index
                /\ \A j \in 1..(k - 1) : Disjoint(blocks[j], blocks[k]))
    /\ [][/\ index' >= index
          /\ nfree' # nfree => index' = index /\ blocks' = blocks
          /\ nreq' # nreq =>
                LET bytes == mr_req'[1]
                    align == mr_req'[2]
                IN  IF align > MaxAlign \/ PadTo(index, align) + bytes > BufSize - index
                    THEN mr_last' = "bad_alloc" /\ index' = index /\ blocks' = blocks
                    ELSE /\ mr_last' = "ok"
                         /\ Len(blocks') = Len(blocks) + 1
                         /\ blocks'[Len(blocks')].off = index + PadTo(index, align)
                         /\ index' = index + PadTo(index, align) + bytes]_vars

\* C29 witness: a second non-empty block was returned after padding: it
\* starts at a multiple of 8 or 16 beyond the end of the first block.
C29_Witness ==
    /\ Len(blocks) = 2
    /\ blocks[2].off > blocks[1].off + blocks[1].bytes
    /\ blocks[2].align >= 8
    /\ blocks[1].bytes > 0
    /\ blocks[2].bytes > 0

====
